---- MODULE Spec2Model ----
(***************************************************************************)
(* Model of the invoice line-item core of bajaj_datathon:                  *)
(*   candidates.py  merge_wrapped_rows                                     *)
(*   dedupe.py      canonicalize_description, deduplicate_candidates       *)
(*   reconcile.py   make_duplicate_groups_from_candidates, ilp_reconcile   *)
(*   text_based_extraction.py / app.py   the per-document pipeline         *)
(*                                                                         *)
(* Units.  Amounts are integers in thousandths of a currency unit, so that *)
(* round(x, 2) is a real operation (Round2).  Confidences are integers in  *)
(* 1/ConfScale of a confidence point, so that the means the code takes     *)
(* stay exact.  Pixel coordinates are integers.                            *)
(***************************************************************************)
EXTENDS Integers, Sequences, FiniteSets, TLC

VARIABLES
    pc,                \* position of the run
    candidates,        \* the candidate list handed to the function under analysis
    reported_total,    \* ilp_reconcile argument: None or an amount
    tolerance,         \* ilp_reconcile argument
    duplicate_groups,  \* ilp_reconcile argument: sequence of id sequences
    backend,           \* behaviour of the CBC backend: "sound" or "fails"
    result,            \* value returned by the latest ilp_reconcile call
    first_result,      \* value returned by the call before the tolerance was raised
    first_tolerance,   \* tolerance of that earlier call
    merged,            \* list returned by merge_wrapped_rows
    merge_log,         \* the _is_wrapped_row tests of that call, in order
    ratio_thresh,      \* deduplicate_candidates argument
    deduped,           \* outcome of deduplicate_candidates(candidates)
    rededuped,         \* outcome of deduplicate_candidates on the list it returned
    pages,             \* the document: per page, the rows of OCR tokens
    header_sim,        \* per page after the first: header strip matches page 1
    footer_sim,        \* per page after the first: footer strip matches page 1
    page_no,           \* extract_bill_data: the page processed next
    all_candidates,    \* extract_bill_data: candidates collected so far
    filtered,          \* candidates removed by the header/footer filter
    deduped_candidates, \* extract_bill_data: outcome of the deduplication
    use_reported_total, \* extract_bill_data: the target handed to ilp_reconcile
    response_data,     \* extract_bill_data: value returned by build_response
    table_roi_bgr,     \* assemble_candidates_from_table: the table region
    rows,              \* assemble_candidates_from_table: the row intervals
    cols,              \* assemble_candidates_from_table: the columns and what OCR reads in them
    _candidate_id_counter, \* candidates.py: the module-level id counter
    table_result,      \* outcome of assemble_candidates_from_table
    thread_pc,         \* per concurrent call: the next step of its current row
    thread_reg,        \* per concurrent call: the counter value it loaded
    thread_rows,       \* per concurrent call: valid rows still to process
    thread_ids,        \* per concurrent call: the ids its candidates received
    row_tokens,        \* extract_line_item_from_row argument: the tokens of one row
    line_item          \* outcome of extract_line_item_from_row

recVars == <<reported_total, tolerance, duplicate_groups, backend, result,
             first_result, first_tolerance>>
mergeVars == <<merged, merge_log>>
dedupeVars == <<ratio_thresh, deduped, rededuped>>
pipeVars == <<pages, header_sim, footer_sim, page_no, all_candidates, filtered,
              deduped_candidates, use_reported_total, response_data>>

tableVars == <<table_roi_bgr, rows, cols, _candidate_id_counter, table_result>>
threadVars == <<thread_pc, thread_reg, thread_rows, thread_ids>>
rowVars == <<row_tokens, line_item>>

vars == <<pc, candidates, recVars, mergeVars, dedupeVars, pipeVars, tableVars,
          threadVars, rowVars>>

----------------------------------------------------------------------------
(* Bounds *)

MaxCands == 3
MaxRows == 3
MaxDups == 3
MaxPages == 2
MaxCols == 3
MaxThreadRows == 2
MaxTokens == 3
MaxFiltered == 2

(* Scales *)

AmtScale == 1000
ConfScale == 720

----------------------------------------------------------------------------
(* Python values *)

None == <<>>
Some(v) == <<v>>
Val(a) == a[1]
OrZero(a) == IF a = None THEN 0 ELSE Val(a)

Abs(x) == IF x < 0 THEN -x ELSE x
Max(x, y) == IF x >= y THEN x ELSE y
Min(x, y) == IF x <= y THEN x ELSE y

\* round(x, 2) on a value held in thousandths: nearest multiple of 10,
\* a tie going to the even hundredth.
Round2(x) ==
    LET r == x % 10
        lo == x - r
    IN  IF r < 5 THEN lo
        ELSE IF r > 5 THEN lo + 10
        ELSE IF (lo \div 10) % 2 = 0 THEN lo ELSE lo + 10

C(points) == points * ConfScale

----------------------------------------------------------------------------
(* Descriptions are sequences of whitespace-separated tokens. *)

LowerTok(t) ==
    CASE t = "A" -> "a"
      [] t = "B" -> "b"
      [] t = "No" -> "no"
      [] t = "Total" -> "total"
      [] OTHER -> t

\* number of characters of a token
TokLen(t) ==
    CASE t \in {"No", "no"} -> 2
      [] t = "a-b" -> 3
      [] t \in {"cont", "1.00"} -> 4
      [] t \in {"Total", "total"} -> 5
      [] OTHER -> 1

\* desc.strip().lower()
StripLower(desc) == [i \in 1..Len(desc) |-> LowerTok(desc[i])]

----------------------------------------------------------------------------
(* Candidate records *)

Cand(id, page, bbox, desc, amount, conf) ==
    [id |-> id, page |-> page, bbox |-> bbox, raw_cells |-> desc, desc |-> desc,
     amount |-> amount, conf |-> conf, merged_ids |-> <<>>]

RECURSIVE SeqSum(_)
SeqSum(s) == IF s = <<>> THEN 0 ELSE Head(s) + SeqSum(Tail(s))

\* len(desc): the tokens and the single spaces between them
DescLen(desc) ==
    IF desc = <<>> THEN 0
    ELSE SeqSum([i \in 1..Len(desc) |-> TokLen(desc[i])]) + Len(desc) - 1

Ids(cs) == [i \in 1..Len(cs) |-> cs[i].id]
IdSet(cs) == {cs[i].id : i \in 1..Len(cs)}
Range(s) == {s[i] : i \in 1..Len(s)}

----------------------------------------------------------------------------
(* reconcile.py: make_duplicate_groups_from_candidates *)

GroupKey(c) == <<StripLower(c.desc), Round2(Val(c.amount))>>

make_duplicate_groups_from_candidates(cs) ==
    LET HasAmount(i) == cs[i].amount # None
        \* indices that insert a new key into key_to_ids, in insertion order
        IsFirst(i) == /\ HasAmount(i)
                      /\ \A j \in 1..(i - 1) :
                            ~(HasAmount(j) /\ GroupKey(cs[j]) = GroupKey(cs[i]))
        Idx == [i \in 1..Len(cs) |-> i]
        Firsts == SelectSeq(Idx, IsFirst)
        IdList(f) ==
            LET Same(i) == HasAmount(i) /\ GroupKey(cs[i]) = GroupKey(cs[f])
                members == SelectSeq(Idx, Same)
            IN  [k \in 1..Len(members) |-> cs[members[k]].id]
        Lists == [k \in 1..Len(Firsts) |-> IdList(Firsts[k])]
        MoreThanOne(l) == Len(l) > 1
    IN  SelectSeq(Lists, MoreThanOne)

----------------------------------------------------------------------------
(* reconcile.py: ilp_reconcile *)

Penalty == 10

ValidCandidates(cs) == LET HasAmt(c) == c.amount # None IN SelectSeq(cs, HasAmt)

\* An assignment of the binary variables is the set X of ids whose x_vars
\* entry is 1 (x_vars is keyed by candidate id).
RECURSIVE SelectedAmount(_, _)
SelectedAmount(cs, X) ==
    IF cs = <<>> THEN 0
    ELSE (IF Head(cs).id \in X THEN Val(Head(cs).amount) ELSE 0)
         + SelectedAmount(Tail(cs), X)

RECURSIVE SelectedConf(_, _)
SelectedConf(cs, X) ==
    IF cs = <<>> THEN 0
    ELSE (IF Head(cs).id \in X THEN Head(cs).conf ELSE 0)
         + SelectedConf(Tail(cs), X)

\* lpSum(group_vars) for one duplicate group
GroupLoad(group_ids, xvar_ids, X) ==
    Cardinality({k \in 1..Len(group_ids) :
                    group_ids[k] \in xvar_ids /\ group_ids[k] \in X})

GroupsOk_Ignored(cs, groups, X) == TRUE

GroupsOk(cs, groups, X) ==
    \A g \in 1..Len(groups) : GroupLoad(groups[g], IdSet(cs), X) <= 1

ToleranceOk_Unbounded(cs, target, tol, X) == TRUE

ToleranceOk_Reversed(cs, target, tol, X) ==
    target = None \/ Abs(SelectedAmount(cs, X) - Val(target)) >= tol

\* Total_Deviation and Tolerance_Constraint: z_plus - z_minus is the signed
\* deviation and z_plus + z_minus <= tolerance, with both parts >= 0.
ToleranceOk(cs, target, tol, X) ==
    target = None \/ Abs(SelectedAmount(cs, X) - Val(target)) <= tol

FeasibleAssignments(cs, target, groups, tol) ==
    {X \in SUBSET IdSet(cs) : ToleranceOk(cs, target, tol, X) /\ GroupsOk(cs, groups, X)}

\* Objective, multiplied by ConfScale * AmtScale / Penalty to stay integral.
\* At an optimum z_plus + z_minus equals the absolute deviation.
Objective(cs, target, X) ==
    (AmtScale \div Penalty) * SelectedConf(cs, X)
    - (IF target = None THEN 0
       ELSE ConfScale * Abs(SelectedAmount(cs, X) - Val(target)))

OptimalAssignments(cs, target, groups, tol) ==
    LET F == FeasibleAssignments(cs, target, groups, tol)
    IN  {X \in F : \A Y \in F : Objective(cs, target, Y) <= Objective(cs, target, X)}

\* pulp.LpStatus[prob.status] after prob.solve(solver)
SolverStatuses(cs, target, groups, tol, be) ==
    IF be = "fails" THEN {"Not Solved", "Undefined"}
    ELSE IF FeasibleAssignments(cs, target, groups, tol) = {} THEN {"Infeasible"}
    ELSE {"Optimal"}

Result(ids, total, dev, status) ==
    [selected_ids |-> ids, selected_total |-> total, deviation |-> dev,
     status |-> status]

CollectSelected(cs, target, X) ==
    LET IsSel(c) == c.id \in X
        total == SelectedAmount(cs, X)
        dev == IF target = None THEN 0 ELSE Abs(total - Val(target))
    IN  Result(Ids(SelectSeq(cs, IsSel)), Round2(total), Round2(dev), "ok")

\* returned for an empty candidate list
EmptyResult == Result(<<>>, 0, 0, "ok")

\* returned when no candidate has an amount
NoValidAmountsResult(target) ==
    Result(<<>>, 0, IF target = None THEN 0 ELSE Abs(Val(target)), "no_valid_amounts")

NotOptimalResult_ZeroDeviation(target) ==
    Result(<<>>, 0, 0, "infeasible")

\* returned when the solver status is not Optimal
NotOptimalResult(target) ==
    Result(<<>>, 0, IF target = None THEN 0 ELSE Abs(Val(target)), "infeasible")

\* The set of values ilp_reconcile can return (the solver is free to return
\* any optimal assignment).
ilp_reconcile(cs0, target, groups, tol, be) ==
    IF cs0 = <<>> THEN {EmptyResult}
    ELSE LET cs == ValidCandidates(cs0) IN
      IF cs = <<>>
      THEN {NoValidAmountsResult(target)}
      ELSE UNION {
             IF st # "Optimal"
             THEN {NotOptimalResult(target)}
             ELSE {CollectSelected(cs, target, X) :
                      X \in OptimalAssignments(cs, target, groups, tol)}
             : st \in SolverStatuses(cs, target, groups, tol, be)}

----------------------------------------------------------------------------
(* Inputs of the reconciliation runs *)

Box0 == <<0, 0, 100, 20>>

RecKinds ==
    { [desc |-> <<"A", "b">>, amount |-> Some(2000), conf |-> C(85)],
      [desc |-> <<"a", "b">>, amount |-> Some(2000), conf |-> C(92)],
      [desc |-> <<"a", "b">>, amount |-> Some(2004), conf |-> C(90)],
      [desc |-> <<"c">>,      amount |-> Some(1000), conf |-> C(95)],
      [desc |-> <<"c">>,      amount |-> None,       conf |-> C(70)],
      [desc |-> <<"c">>,      amount |-> Some(-1000), conf |-> C(50)],
      [desc |-> <<"d">>,      amount |-> Some(500),  conf |-> 0] }

\* all_candidates as extract_bill_data collects it from a document of one or
\* two pages: the first `first` candidates come from page 1, and the ids
\* start at 1 on each page
RecLists ==
    { [i \in DOMAIN kf[1] |->
         Cand(IF i <= kf[2] THEN i ELSE i - kf[2],
              IF i <= kf[2] THEN 1 ELSE 2,
              Box0, kf[1][i].desc, kf[1][i].amount, kf[1][i].conf)] :
        kf \in UNION { [1..n -> RecKinds] \X (IF n = 0 THEN {0} ELSE 1..n) :
                         n \in 0..MaxCands } }

RecTargets == {None, Some(0), Some(2000), Some(3000)}
RecTolerances == {0, 1000}

\* reconcile.py main(), Test Case 2
Example450 ==
    << Cand(1, 1, Box0, <<"a">>, Some(100 * AmtScale), C(95)),
       Cand(2, 1, Box0, <<"b">>, Some(200 * AmtScale), C(85)),
       Cand(3, 1, Box0, <<"c">>, Some(150 * AmtScale), C(90)),
       Cand(4, 1, Box0, <<"d">>, Some(50 * AmtScale),  C(70)) >>

\* reconcile.py main(), Test Case 3
Example350 ==
    << Cand(1, 1, Box0, <<"a">>, Some(100 * AmtScale), C(95)),
       Cand(2, 1, Box0, <<"c">>, Some(200 * AmtScale), C(85)),
       Cand(3, 1, Box0, <<"c">>, Some(200 * AmtScale), C(92)),
       Cand(4, 1, Box0, <<"d">>, Some(50 * AmtScale),  C(70)) >>

NoResult == Result(<<>>, 0, 0, "none")

RecIdle ==
    /\ reported_total = None /\ tolerance = 0 /\ duplicate_groups = <<>>
    /\ backend = "sound" /\ result = NoResult
    /\ first_result = NoResult /\ first_tolerance = 0

MergeIdle == merged = <<>> /\ merge_log = <<>>

NotRun == [status |-> "not run", out |-> <<>>]

\* no response has been built
NoResponse ==
    [pagewise_line_items |-> <<>>, total_item_count |-> 0, reconciled_amount |-> 0]

DedupeIdle == ratio_thresh = 88 /\ deduped = NotRun /\ rededuped = NotRun

PipeIdle ==
    /\ pages = <<>> /\ header_sim = <<>> /\ footer_sim = <<>> /\ page_no = 1
    /\ all_candidates = <<>> /\ filtered = <<>> /\ deduped_candidates = NotRun
    /\ use_reported_total = None /\ response_data = NoResponse

TableIdle ==
    /\ table_roi_bgr = None /\ rows = <<>> /\ cols = <<>>
    /\ _candidate_id_counter = 0 /\ table_result = NotRun

ThreadIdle ==
    /\ thread_pc = <<>> /\ thread_reg = <<>> /\ thread_rows = <<>>
    /\ thread_ids = <<>>

RowIdle == row_tokens = <<>> /\ line_item = NotRun

RecStart(backends) ==
    /\ pc = "start"
    /\ \/ /\ candidates \in RecLists
          /\ reported_total \in RecTargets
          /\ tolerance \in RecTolerances
       \/ /\ candidates = Example450
          /\ reported_total = Some(450 * AmtScale)
          /\ tolerance = 1 * AmtScale
       \/ /\ candidates = Example350
          /\ reported_total = Some(350 * AmtScale)
          /\ tolerance = 1 * AmtScale
    /\ duplicate_groups = <<>>
    /\ backend \in backends
    /\ result = NoResult
    /\ first_result = NoResult
    /\ first_tolerance = 0
    /\ MergeIdle
    /\ DedupeIdle
    /\ PipeIdle
    /\ TableIdle
    /\ ThreadIdle
    /\ RowIdle

\* the caller computes the duplicate groups from the same candidates
MakeGroups ==
    /\ pc = "start"
    /\ duplicate_groups' = make_duplicate_groups_from_candidates(candidates)
    /\ pc' = "grouped"
    /\ UNCHANGED <<candidates, reported_total, tolerance, backend, result,
                   first_result, first_tolerance, mergeVars, dedupeVars,
                   pipeVars, tableVars,
                   threadVars, rowVars>>

\* the caller leaves duplicate_groups at its default (None)
NoGroups ==
    /\ pc = "start"
    /\ duplicate_groups' = <<>>
    /\ pc' = "nogroups"
    /\ UNCHANGED <<candidates, reported_total, tolerance, backend, result,
                   first_result, first_tolerance, mergeVars, dedupeVars,
                   pipeVars, tableVars,
                   threadVars, rowVars>>

\* variant: the filter of line 65 applied in place to the caller's list
ArgumentsAfterReconcile_FilteredInPlace(cs, groups) ==
    [candidates |-> ValidCandidates(cs), duplicate_groups |-> groups]

\* the caller's argument objects when ilp_reconcile returns: the function
\* builds valid_candidates as a new list and rebinds its local name to it
\* (lines 65, 75); every other use of candidates, of a candidate and of
\* duplicate_groups is a read (lines 82-93, 110-113, 127-135, 156-161)
ArgumentsAfterReconcile(cs, groups) ==
    [candidates |-> cs, duplicate_groups |-> groups]

Reconcile ==
    /\ pc \in {"grouped", "nogroups"}
    /\ result' \in ilp_reconcile(candidates, reported_total, duplicate_groups,
                                 tolerance, backend)
    /\ pc' = IF pc = "grouped" THEN "done" ELSE "done_nogroups"
    /\ candidates' = ArgumentsAfterReconcile(candidates, duplicate_groups).candidates
    /\ duplicate_groups' =
          ArgumentsAfterReconcile(candidates, duplicate_groups).duplicate_groups
    /\ UNCHANGED <<reported_total, tolerance,
                   backend, first_result, first_tolerance, mergeVars, dedupeVars,
                   pipeVars, tableVars,
                   threadVars, rowVars>>

\* a second call with the same candidates, groups and target and a tolerance
\* that is at least the first one
ReconcileWider ==
    /\ pc \in {"done", "done_nogroups"}
    /\ reported_total # None
    /\ \E t2 \in RecTolerances \cup {tolerance + AmtScale} :
          /\ t2 >= tolerance
          /\ tolerance' = t2
          /\ result' \in ilp_reconcile(candidates, reported_total, duplicate_groups,
                                       t2, backend)
    /\ first_result' = result
    /\ first_tolerance' = tolerance
    /\ pc' = "redone"
    /\ candidates' = ArgumentsAfterReconcile(candidates, duplicate_groups).candidates
    /\ duplicate_groups' =
          ArgumentsAfterReconcile(candidates, duplicate_groups).duplicate_groups
    /\ UNCHANGED <<reported_total, backend, mergeVars,
                   dedupeVars, pipeVars, tableVars,
                   threadVars, rowVars>>

NextRec == MakeGroups \/ NoGroups \/ Reconcile \/ ReconcileWider

\* CBC solves every problem it is given (no time limit is set)
InitRec == RecStart({"sound"})
SpecRec == InitRec /\ [][NextRec]_vars

\* the backend may also end with a status other than Optimal or Infeasible
InitRecBackend == RecStart({"sound", "fails"})
SpecRecBackend == InitRecBackend /\ [][NextRec]_vars

----------------------------------------------------------------------------
(* Properties of the reconciliation runs *)

RecDone == pc \in {"done", "done_nogroups", "redone"}

SelectedSet == Range(result.selected_ids)

\* positions of the candidates that carry an amount
AmountIdx == {i \in 1..Len(candidates) : candidates[i].amount # None}

\* positions of the selected candidates: the amount-bearing candidates whose
\* id is in selected_ids
SelectedIdx == {i \in AmountIdx : candidates[i].id \in SelectedSet}

AmountOver(S) ==
    SeqSum([i \in 1..Len(candidates) |->
               IF i \in S THEN OrZero(candidates[i].amount) ELSE 0])

ConfOver(S) ==
    SeqSum([i \in 1..Len(candidates) |-> IF i \in S THEN candidates[i].conf ELSE 0])

OnePerGroup(S) ==
    \A g \in 1..Len(duplicate_groups) :
        Cardinality({i \in S : candidates[i].id \in Range(duplicate_groups[g])}) <= 1

WithinTolerance(S) ==
    reported_total = None \/ Abs(AmountOver(S) - Val(reported_total)) <= tolerance

Admissible(S) == OnePerGroup(S) /\ WithinTolerance(S)

\* (sum of confidences) - 10 * |sum of amounts - target|, in units of
\* 1 / (100 * ConfScale) of a point
Score(S) ==
    100 * ConfOver(S)
    - (IF reported_total = None THEN 0
       ELSE ConfScale * Abs(AmountOver(S) - Val(reported_total)))

\* C1: with the groups of make_duplicate_groups_from_candidates on the same
\* candidates, selected_ids holds at most one id of each group, and of the
\* candidates that share a description and amount at most one is selected.
C1_OnePerDuplicateGroup ==
    (/\ RecDone
     /\ duplicate_groups = make_duplicate_groups_from_candidates(candidates)) =>
        /\ \A g \in 1..Len(duplicate_groups) :
              Cardinality(SelectedSet \cap Range(duplicate_groups[g])) <= 1
        /\ \A i, j \in AmountIdx :
              (/\ i # j
               /\ GroupKey(candidates[i]) = GroupKey(candidates[j])
               /\ candidates[i].id \in SelectedSet)
                  => candidates[j].id \notin SelectedSet

\* a group was found, the target is met and one member of the group is selected
C1_Witness ==
    /\ pc = "done"
    /\ Len(duplicate_groups) >= 1
    /\ result.status = "ok"
    /\ \E k \in 1..Len(result.selected_ids) :
          result.selected_ids[k] \in Range(duplicate_groups[1])

\* C2: with a target and status 'ok' on a non-empty list, the amounts of the
\* selected candidates sum to within the tolerance of the target.
C2_SelectedTotalWithinTolerance ==
    (RecDone /\ reported_total # None /\ candidates # <<>> /\ result.status = "ok")
        => Abs(AmountOver(SelectedIdx) - Val(reported_total)) <= tolerance

\* a selection that misses the target by a non-zero amount inside the tolerance
C2_Witness ==
    /\ RecDone /\ reported_total # None /\ result.status = "ok"
    /\ result.selected_ids # <<>>
    /\ AmountOver(SelectedIdx) # Val(reported_total)
    /\ tolerance > 0

\* C3 (as claimed): a selection returned with status 'ok' is admissible and
\* no admissible subset of the amount-bearing candidates scores higher; the
\* 450 example returns 'ok' with a selection that sums to exactly 450.
C3_SelectionOptimal ==
    /\ (RecDone /\ candidates # <<>> /\ result.status = "ok") =>
          /\ Admissible(SelectedIdx)
          /\ \A S \in SUBSET AmountIdx :
                Admissible(S) => Score(S) <= Score(SelectedIdx)
    /\ (pc \in {"done", "done_nogroups"} /\ candidates = Example450) =>
          /\ result.status = "ok"
          /\ AmountOver(SelectedIdx) = 450 * AmtScale

\* C4 (as claimed): the status is 'ok' for an empty list, 'no_valid_amounts'
\* for a non-empty list without amounts, and otherwise 'ok' exactly when some
\* subset of the amount-bearing candidates is admissible, else 'infeasible'.
C4_StatusClassification ==
    RecDone =>
        result.status =
            IF candidates = <<>> THEN "ok"
            ELSE IF AmountIdx = {} THEN "no_valid_amounts"
            ELSE IF \E S \in SUBSET AmountIdx : Admissible(S) THEN "ok"
            ELSE "infeasible"

\* C5: when the solver does not report Optimal (nothing feasible, or another
\* backend status), the result is 'infeasible' with no ids, total 0 and
\* deviation |target| (0 without a target).
C5_NotOptimalFailsClosed ==
    (/\ RecDone /\ AmountIdx # {}
     /\ \/ backend = "fails"
        \/ FeasibleAssignments(ValidCandidates(candidates), reported_total,
                               duplicate_groups, tolerance) = {})
        => /\ result.status = "infeasible"
           /\ result.selected_ids = <<>>
           /\ result.selected_total = 0
           /\ result.deviation =
                 IF reported_total = None THEN 0 ELSE Abs(Val(reported_total))

\* the backend fails on a problem that has admissible selections
C5_Witness ==
    /\ RecDone /\ backend = "fails" /\ AmountIdx # {}
    /\ reported_total # None /\ Val(reported_total) # 0
    /\ \E S \in SUBSET AmountIdx : S # {} /\ Admissible(S)

C5_WitnessNoTarget ==
    RecDone /\ backend = "fails" /\ AmountIdx # {} /\ reported_total = None

C5_WitnessInfeasible ==
    /\ RecDone /\ backend = "sound" /\ AmountIdx # {}
    /\ ~ \E S \in SUBSET AmountIdx : Admissible(S)

\* C6: a call that returned 'ok' returns 'ok' again when only the tolerance
\* is raised.
C6_FeasibilityMonotone ==
    (pc = "redone" /\ tolerance >= first_tolerance /\ first_result.status = "ok")
        => result.status = "ok"

\* the tolerance was raised after an 'ok' and the wider call selects more
C6_Witness ==
    /\ pc = "redone" /\ first_result.status = "ok"
    /\ tolerance > first_tolerance
    /\ candidates # <<>>
    /\ result.status = "ok"
    /\ result.selected_ids # first_result.selected_ids

C6_WitnessBecomesOk ==
    /\ pc = "redone" /\ first_result.status = "infeasible"
    /\ tolerance > first_tolerance /\ result.status = "ok"

\* C17 (as claimed): of two candidates in one duplicate group with the same
\* amount and different confidences, a result with status 'ok' never holds
\* the one of lower confidence; in the 350 example the candidate of
\* confidence 92 is selected and the one of confidence 85 is not.
C17_HigherConfidencePreferred ==
    /\ (/\ RecDone /\ result.status = "ok"
        /\ duplicate_groups = make_duplicate_groups_from_candidates(candidates)) =>
          \A i, j \in AmountIdx :
              (/\ \E g \in 1..Len(duplicate_groups) :
                     /\ candidates[i].id \in Range(duplicate_groups[g])
                     /\ candidates[j].id \in Range(duplicate_groups[g])
               /\ candidates[i].amount = candidates[j].amount
               /\ candidates[i].conf < candidates[j].conf)
                  => i \notin SelectedIdx
    /\ (pc = "done" /\ candidates = Example350) =>
          /\ result.status = "ok"
          /\ 3 \in SelectedSet /\ 2 \notin SelectedSet

\* the selections ilp_reconcile can return for the list cs
PossibleSelections(cs) ==
    {r.selected_ids : r \in ilp_reconcile(cs, reported_total, duplicate_groups,
                                           tolerance, backend)}

C20_WitnessInfeasible ==
    /\ RecDone
    /\ result.status = "infeasible"
    /\ \E i \in 1..Len(candidates) : candidates[i].amount = None

\* a call has returned 'no_valid_amounts'
C20_WitnessNoValidAmounts ==
    /\ RecDone
    /\ result.status = "no_valid_amounts"
    /\ candidates # <<>>

\* C9 (as claimed): with status 'ok', deviation is |selected_total - target|
\* (0 without a target) and selected_total is the sum of the selected
\* candidates' amounts, for every input including the empty list.
C9_DeviationAndTotal ==
    (RecDone /\ result.status = "ok") =>
        /\ result.deviation =
              IF reported_total = None THEN 0
              ELSE Abs(result.selected_total - Val(reported_total))
        /\ result.selected_total = AmountOver(SelectedIdx)

----------------------------------------------------------------------------
(* candidates.py: merge_wrapped_rows *)

_is_wrapped_row_GapExclusive(parent, candidate) ==
    IF candidate.amount # None THEN FALSE
    ELSE IF candidate.desc = <<>> \/ DescLen(candidate.desc) < 3 THEN FALSE
    ELSE IF parent.page # candidate.page THEN FALSE
    ELSE IF parent.bbox = None \/ candidate.bbox = None THEN FALSE
    ELSE LET vertical_gap == candidate.bbox[2] - parent.bbox[4]
             horizontal_offset == Abs(candidate.bbox[1] - parent.bbox[1])
         IN  IF vertical_gap < -5 \/ vertical_gap >= 10 THEN FALSE
             ELSE IF horizontal_offset > 20 THEN FALSE
             ELSE TRUE

_is_wrapped_row_AnyPage(parent, candidate) ==
    IF candidate.amount # None THEN FALSE
    ELSE IF candidate.desc = <<>> \/ DescLen(candidate.desc) < 3 THEN FALSE
    ELSE IF parent.bbox = None \/ candidate.bbox = None THEN FALSE
    ELSE LET vertical_gap == candidate.bbox[2] - parent.bbox[4]
             horizontal_offset == Abs(candidate.bbox[1] - parent.bbox[1])
         IN  IF vertical_gap < -5 \/ vertical_gap > 10 THEN FALSE
             ELSE IF horizontal_offset > 20 THEN FALSE
             ELSE TRUE

_is_wrapped_row(parent, candidate) ==
    IF candidate.amount # None THEN FALSE
    ELSE IF candidate.desc = <<>> \/ DescLen(candidate.desc) < 3 THEN FALSE
    ELSE IF parent.page # candidate.page THEN FALSE
    ELSE IF parent.bbox = None \/ candidate.bbox = None THEN FALSE
    ELSE LET vertical_gap == candidate.bbox[2] - parent.bbox[4]
             horizontal_offset == Abs(candidate.bbox[1] - parent.bbox[1])
         IN  IF vertical_gap < -5 \/ vertical_gap > 10 THEN FALSE
             ELSE IF horizontal_offset > 20 THEN FALSE
             ELSE TRUE

_merge_two_candidates_BottomKept(parent, wrapped) ==
    LET desc == IF wrapped.desc # <<>>
                THEN (IF parent.desc # <<>> THEN parent.desc \o wrapped.desc
                      ELSE wrapped.desc)
                ELSE parent.desc
        conf == IF parent.conf > 0 /\ wrapped.conf > 0
                THEN (parent.conf + wrapped.conf) \div 2
                ELSE parent.conf
    IN  [parent EXCEPT !.desc = desc,
                       !.raw_cells = parent.raw_cells \o wrapped.raw_cells,
                       !.conf = conf]

_merge_two_candidates(parent, wrapped) ==
    LET desc == IF wrapped.desc # <<>>
                THEN (IF parent.desc # <<>> THEN parent.desc \o wrapped.desc
                      ELSE wrapped.desc)
                ELSE parent.desc
        bbox == IF parent.bbox # None /\ wrapped.bbox # None
                THEN << Min(parent.bbox[1], wrapped.bbox[1]),
                        parent.bbox[2],
                        Max(parent.bbox[3], wrapped.bbox[3]),
                        wrapped.bbox[4] >>
                ELSE parent.bbox
        conf == IF parent.conf > 0 /\ wrapped.conf > 0
                THEN (parent.conf + wrapped.conf) \div 2
                ELSE parent.conf
    IN  [parent EXCEPT !.desc = desc, !.bbox = bbox,
                       !.raw_cells = parent.raw_cells \o wrapped.raw_cells,
                       !.conf = conf]

\* the while loop: absorbs candidates j, j+1, ... into merged_candidate
RECURSIVE LookAhead(_, _, _, _, _)
LookAhead(cs, merged_candidate, j, skip_next, log) ==
    IF j > Len(cs)
    THEN [merged_candidate |-> merged_candidate, skip_next |-> skip_next, log |-> log]
    ELSE IF _is_wrapped_row(merged_candidate, cs[j])
    THEN LookAhead(cs, _merge_two_candidates(merged_candidate, cs[j]), j + 1,
                   skip_next \cup {j},
                   Append(log, [parent |-> merged_candidate, row |-> j, wrapped |-> TRUE]))
    ELSE [merged_candidate |-> merged_candidate, skip_next |-> skip_next,
          log |-> Append(log, [parent |-> merged_candidate, row |-> j, wrapped |-> FALSE])]

\* the for loop over the candidates
RECURSIVE MergeLoop(_, _, _, _, _)
MergeLoop(cs, i, skip_next, out, log) ==
    IF i > Len(cs) THEN [merged |-> out, log |-> log]
    ELSE IF i \in skip_next THEN MergeLoop(cs, i + 1, skip_next, out, log)
    ELSE LET la == LookAhead(cs, cs[i], i + 1, skip_next, log)
         IN  MergeLoop(cs, i + 1, la.skip_next, Append(out, la.merged_candidate), la.log)

\* returns the merged list together with the record of the tests it made
merge_wrapped_rows(cs) ==
    IF cs = <<>> THEN [merged |-> <<>>, log |-> <<>>]
    ELSE MergeLoop(cs, 1, {}, <<>>, <<>>)

----------------------------------------------------------------------------
(* Inputs of the merge runs *)

MergeKinds ==
    { \* a line item, and the continuation line of candidates.py main()
      [page |-> 1, bbox |-> <<10, 10, 390, 30>>, desc |-> <<"a", "b">>,
       amount |-> Some(100 * AmtScale), conf |-> C(90)],
      [page |-> 1, bbox |-> <<10, 32, 390, 45>>, desc |-> <<"cont">>,
       amount |-> None, conf |-> C(80)],
      \* continuation lines at the limits of the gap and of the left offset
      [page |-> 1, bbox |-> <<30, 40, 395, 60>>, desc |-> <<"a", "b">>,
       amount |-> None, conf |-> C(70)],
      [page |-> 1, bbox |-> <<10, 41, 390, 55>>, desc |-> <<"cont">>,
       amount |-> None, conf |-> C(80)],
      [page |-> 1, bbox |-> <<31, 32, 390, 45>>, desc |-> <<"cont">>,
       amount |-> None, conf |-> C(80)],
      [page |-> 1, bbox |-> <<10, 24, 390, 44>>, desc |-> <<"cont">>,
       amount |-> None, conf |-> C(80)],
      \* a continuation line that overlaps the line above it by 5 pixels and
      \* ends above that line's bottom edge
      [page |-> 1, bbox |-> <<10, 25, 390, 29>>, desc |-> <<"cont">>,
       amount |-> None, conf |-> C(80)],
      \* a two-character description, another page, a zero confidence,
      \* and a second line item in the continuation's place
      [page |-> 1, bbox |-> <<10, 32, 390, 45>>, desc |-> <<"No">>,
       amount |-> None, conf |-> C(80)],
      [page |-> 2, bbox |-> <<10, 32, 390, 45>>, desc |-> <<"cont">>,
       amount |-> None, conf |-> C(80)],
      [page |-> 1, bbox |-> <<10, 32, 390, 45>>, desc |-> <<"cont">>,
       amount |-> None, conf |-> 0],
      [page |-> 1, bbox |-> <<10, 32, 390, 45>>, desc |-> <<"a", "b">>,
       amount |-> Some(50 * AmtScale), conf |-> C(60)] }

MergeLists ==
    { [i \in DOMAIN k |-> Cand(i, k[i].page, k[i].bbox, k[i].desc,
                               k[i].amount, k[i].conf)] :
        k \in UNION { [1..n -> MergeKinds] : n \in 0..MaxRows } }

InitMerge ==
    /\ pc = "start"
    /\ candidates \in MergeLists
    /\ RecIdle
    /\ MergeIdle
    /\ DedupeIdle
    /\ PipeIdle
    /\ TableIdle
    /\ ThreadIdle
    /\ RowIdle

MergeWrappedRows ==
    /\ pc = "start"
    /\ LET r == merge_wrapped_rows(candidates)
       IN  merged' = r.merged /\ merge_log' = r.log
    /\ pc' = "merged"
    /\ UNCHANGED <<candidates, recVars, dedupeVars, pipeVars, tableVars,
                   threadVars, rowVars>>

NextMerge == MergeWrappedRows

SpecMerge == InitMerge /\ [][NextMerge]_vars

----------------------------------------------------------------------------
(* Properties of the merge runs *)

\* the five conditions of the wrapped-row rule
WrapEligible(A, B) ==
    /\ B.amount = None
    /\ DescLen(B.desc) >= 3
    /\ A.page = B.page
    /\ B.bbox[2] - A.bbox[4] >= -5
    /\ B.bbox[2] - A.bbox[4] <= 10
    /\ Abs(B.bbox[1] - A.bbox[1]) <= 20

\* position of the candidate that started the retained candidate which
\* candidate j is tested against
RetainedBefore(j) ==
    CHOOSE i \in 1..(j - 1) :
        /\ i = 1 \/ ~ merge_log[i - 1].wrapped
        /\ \A k \in (i + 1)..(j - 1) : merge_log[k - 1].wrapped

\* position in the output of the retained candidate started by candidate i
OutputIndex(i) ==
    Cardinality({k \in 1..i : k = 1 \/ ~ merge_log[k - 1].wrapped})

C10_WitnessChain ==
    /\ pc = "merged" /\ Len(candidates) = 3
    /\ merge_log[1].wrapped /\ merge_log[2].wrapped
    /\ ~ WrapEligible(candidates[1], candidates[3])

\* candidate i starts a retained candidate
StartsRetained(i) == i = 1 \/ ~ merge_log[i - 1].wrapped

\* the retained candidate started by candidate i after it absorbed the
\* candidates up to j: texts joined in order, bottom edge of the last line,
\* box widened to the leftmost and rightmost edges
RECURSIVE Folded(_, _)
Folded(i, j) ==
    IF j <= i THEN candidates[i]
    ELSE LET A == Folded(i, j - 1)
             B == candidates[j]
         IN  [A EXCEPT !.desc = A.desc \o B.desc,
                       !.bbox = << Min(A.bbox[1], B.bbox[1]), A.bbox[2],
                                   Max(A.bbox[3], B.bbox[3]), B.bbox[4] >>]

\* candidates i+1..j are continuation lines, each adjacent to the retained
\* candidate as it stands after the lines before it
IsChain(i, j) ==
    \A m \in (i + 1)..j : WrapEligible(Folded(i, m - 1), candidates[m])

\* candidates.py main(), the first two candidates of the demo
MergeExample ==
    << Cand(1, 1, <<10, 10, 390, 30>>, <<"a", "b">>, Some(100 * AmtScale), C(90)),
       Cand(2, 1, <<10, 32, 390, 45>>, <<"cont">>, None, C(80)) >>

C11_WitnessExample == pc = "merged" /\ candidates = MergeExample /\ Len(merged) = 1

\* C12: when no candidate is wrap-eligible against the candidate right before
\* it, merge_wrapped_rows returns the same candidates (ids, descriptions,
\* amounts, boxes, confidences) in the same order and number.
C12_NoEligiblePairUnchanged ==
    (/\ pc = "merged"
     /\ \A j \in 2..Len(candidates) : ~ WrapEligible(candidates[j - 1], candidates[j]))
        => merged = candidates

\* three candidates, two of them without an amount, none eligible
C12_Witness ==
    /\ pc = "merged" /\ Len(candidates) = 3
    /\ candidates[2].amount = None /\ candidates[3].amount = None
    /\ \A j \in 2..3 : ~ WrapEligible(candidates[j - 1], candidates[j])
    /\ merged = candidates

\* the candidates absorbed into the retained candidate started by candidate i
AbsorbedInto(i) ==
    {m \in (i + 1)..Len(candidates) : \A k \in (i + 1)..m : merge_log[k - 1].wrapped}

\* C21 (as claimed): the box of every output candidate is a valid rectangle
\* and the union of the boxes of the candidate that started it and of the
\* rows it absorbed: leftmost left, rightmost right, the top of the first,
\* and a bottom at or below the bottom of each of them.
C21_BoxIsUnion ==
    pc = "merged" =>
        \A i \in 1..Len(candidates) :
            StartsRetained(i) =>
                LET out == merged[OutputIndex(i)]
                    members == {i} \cup AbsorbedInto(i)
                IN  /\ out.bbox[1] <= out.bbox[3]
                    /\ out.bbox[2] <= out.bbox[4]
                    /\ out.bbox[2] = candidates[i].bbox[2]
                    /\ \A m \in members : out.bbox[1] <= candidates[m].bbox[1]
                    /\ \E m \in members : out.bbox[1] = candidates[m].bbox[1]
                    /\ \A m \in members : out.bbox[3] >= candidates[m].bbox[3]
                    /\ \E m \in members : out.bbox[3] = candidates[m].bbox[3]
                    /\ \A m \in members : out.bbox[4] >= candidates[m].bbox[4]

\* the confidence of the retained candidate started by candidate i after it
\* absorbed the candidates up to j, each absorption taking the mean
RECURSIVE MeanConf(_, _)
MeanConf(i, j) ==
    IF j <= i THEN candidates[i].conf
    ELSE (MeanConf(i, j - 1) + candidates[j].conf) \div 2

\* C22 (as claimed): each absorption of a row B into the retained candidate
\* A sets the confidence to (A.conf + B.conf) / 2, also when one of the two
\* is 0, and the confidence stays within [0, 100].
C22_ConfidenceAveraged ==
    pc = "merged" =>
        \A i \in 1..Len(candidates) :
            StartsRetained(i) =>
                LET out == merged[OutputIndex(i)]
                    last == IF AbsorbedInto(i) = {} THEN i
                            ELSE CHOOSE m \in AbsorbedInto(i) :
                                     \A k \in AbsorbedInto(i) : k <= m
                IN  /\ out.conf = MeanConf(i, last)
                    /\ out.conf >= 0
                    /\ out.conf <= C(100)

----------------------------------------------------------------------------
(* dedupe.py: canonicalize_description *)

INVOICE_STOPWORDS == {"no", "qty", "total"}

\* the words left of a token after lower() and re.sub(r'[^\w\s]', ' ', text)
Words(t) ==
    CASE t = "-" -> <<>>
      [] t = "a-b" -> <<"a", "b">>
      [] OTHER -> <<LowerTok(t)>>

RECURSIVE Split(_)
Split(desc) == IF desc = <<>> THEN <<>> ELSE Words(Head(desc)) \o Split(Tail(desc))

canonicalize_description(desc) ==
    IF desc = <<>> THEN <<>>
    ELSE LET NotStopword(t) == t \notin INVOICE_STOPWORDS
         IN  SelectSeq(Split(desc), NotStopword)

----------------------------------------------------------------------------
(* rapidfuzz: fuzz.token_set_ratio, as called at dedupe.py:120 *)

\* the characters of a canonical word
Chars(t) ==
    CASE t = "cont" -> <<"c", "o", "n", "t">>
      [] OTHER -> <<t>>

\* position of a word in sorted() order
WordRank(t) ==
    CASE t = "a" -> 1
      [] t = "b" -> 2
      [] t = "c" -> 3
      [] t = "cont" -> 4
      [] t = "d" -> 5
      [] t = "e" -> 6
      [] OTHER -> 7

RECURSIVE Sorted(_)
Sorted(S) ==
    IF S = {} THEN <<>>
    ELSE LET m == CHOOSE x \in S : \A y \in S : WordRank(x) <= WordRank(y)
         IN  <<m>> \o Sorted(S \ {m})

\* " ".join(words), as a sequence of characters
RECURSIVE Joined(_)
Joined(ws) ==
    IF ws = <<>> THEN <<>>
    ELSE IF Len(ws) = 1 THEN Chars(ws[1])
    ELSE Chars(ws[1]) \o <<" ">> \o Joined(Tail(ws))

\* length of the longest common subsequence
RECURSIVE LCS(_, _)
LCS(s, t) ==
    IF s = <<>> \/ t = <<>> THEN 0
    ELSE IF Head(s) = Head(t) THEN 1 + LCS(Tail(s), Tail(t))
    ELSE Max(LCS(Tail(s), t), LCS(s, Tail(t)))

indel_distance(s, t) == Len(s) + Len(t) - 2 * LCS(s, t)

\* 100 - 100 * dist / lensum, in hundredths of a point, rounded down
norm_distance(dist, lensum) ==
    IF lensum > 0 THEN (10000 * (lensum - dist)) \div lensum ELSE 10000

\* the ratio in hundredths of a point, rounded down; s1 and s2 are word sequences
token_set_ratio(s1, s2) ==
    IF s1 = <<>> \/ s2 = <<>> THEN 0
    ELSE LET tokens_a == Range(s1)
             tokens_b == Range(s2)
             intersect == tokens_a \cap tokens_b
             diff_ab == tokens_a \ tokens_b
             diff_ba == tokens_b \ tokens_a
         IN  IF intersect # {} /\ (diff_ab = {} \/ diff_ba = {}) THEN 10000
             ELSE LET diff_ab_joined == Joined(Sorted(diff_ab))
                      diff_ba_joined == Joined(Sorted(diff_ba))
                      ab_len == Len(diff_ab_joined)
                      ba_len == Len(diff_ba_joined)
                      sect_len == Len(Joined(Sorted(intersect)))
                      sep == IF sect_len # 0 THEN 1 ELSE 0
                      sect_ab_len == sect_len + sep + ab_len
                      sect_ba_len == sect_len + sep + ba_len
                      res == norm_distance(indel_distance(diff_ab_joined, diff_ba_joined),
                                           sect_ab_len + sect_ba_len)
                  IN  IF sect_len = 0 THEN res
                      ELSE Max(res,
                               Max(norm_distance(sep + ab_len, sect_len + sect_ab_len),
                                   norm_distance(sep + ba_len, sect_len + sect_ba_len)))

----------------------------------------------------------------------------
(* dedupe.py: deduplicate_candidates *)

\* the division at line 134 raises ZeroDivisionError
DividesByZero(candidate, other) ==
    /\ candidate.amount # None /\ other.amount # None
    /\ Max(Val(candidate.amount), Val(other.amount)) = 0

\* diff_pct > 5, for a non-zero larger amount m: |a - b| / m * 100 > 5
DiffPctOver5(a, b) ==
    LET m == Max(a, b)
    IN  IF m > 0 THEN 100 * Abs(a - b) > 5 * m
        ELSE 100 * Abs(a - b) < 5 * m

\* lines 126-160 once the ratio has passed: does `other` join the group?
PassesGates(candidate, other) ==
    IF candidate.amount # None /\ other.amount # None
    THEN IF DiffPctOver5(Val(candidate.amount), Val(other.amount)) THEN FALSE
         ELSE IF Abs(Round2(Val(candidate.amount)) - Round2(Val(other.amount)))
                     < AmtScale \div 100
         THEN IF candidate.page = other.page
              THEN Abs(candidate.bbox[2] - other.bbox[2]) < 50
              ELSE TRUE
         ELSE FALSE
    ELSE candidate.amount = None /\ other.amount = None

RatioPasses(candidate, other, thresh) ==
    token_set_ratio(canonicalize_description(candidate.desc),
                    canonicalize_description(other.desc)) >= 100 * thresh

\* the inner loop over j for the group started by candidate i
RECURSIVE ScanLater(_, _, _, _, _, _)
ScanLater(cs, thresh, i, j, processed, group) ==
    IF j > Len(cs) THEN [raised |-> FALSE, processed |-> processed, group |-> group]
    ELSE IF j \in processed THEN ScanLater(cs, thresh, i, j + 1, processed, group)
    ELSE IF RatioPasses(cs[i], cs[j], thresh)
    THEN IF DividesByZero(cs[i], cs[j])
         THEN [raised |-> TRUE, processed |-> processed, group |-> group]
         ELSE IF PassesGates(cs[i], cs[j])
         THEN ScanLater(cs, thresh, i, j + 1, processed \cup {j}, Append(group, j))
         ELSE ScanLater(cs, thresh, i, j + 1, processed, group)
    ELSE ScanLater(cs, thresh, i, j + 1, processed, group)

\* the outer loop: the groups, as sequences of positions
RECURSIVE BuildGroups(_, _, _, _, _)
BuildGroups(cs, thresh, i, processed, groups) ==
    IF i > Len(cs) THEN [raised |-> FALSE, groups |-> groups]
    ELSE IF i \in processed THEN BuildGroups(cs, thresh, i + 1, processed, groups)
    ELSE LET r == ScanLater(cs, thresh, i, i + 1, processed \cup {i}, <<i>>)
         IN  IF r.raised THEN [raised |-> TRUE, groups |-> groups]
             ELSE BuildGroups(cs, thresh, i + 1, r.processed, Append(groups, r.group))

Representative_First(cs, group) == cs[group[1]]

\* max(group_candidates, key=conf): the first member of highest confidence
Representative(cs, group) ==
    LET k == CHOOSE k \in 1..Len(group) :
                /\ \A m \in 1..Len(group) : cs[group[m]].conf <= cs[group[k]].conf
                /\ \A m \in 1..(k - 1) : cs[group[m]].conf < cs[group[k]].conf
    IN  cs[group[k]]

MergeGroup(cs, group) ==
    IF Len(group) = 1 THEN cs[group[1]]
    ELSE [Representative(cs, group) EXCEPT
            !.merged_ids = [k \in 1..Len(group) |-> cs[group[k]].id],
            !.conf = SeqSum([k \in 1..Len(group) |-> cs[group[k]].conf]) \div Len(group)]

\* variant: equal keys do not keep their order
SortKeyLeq_Strict(c, d) ==
    c.page < d.page \/ (c.page = d.page /\ c.bbox[2] < d.bbox[2])

SortKeyLeq(c, d) ==
    c.page < d.page \/ (c.page = d.page /\ c.bbox[2] <= d.bbox[2])

\* list.sort(key=...): stable
RECURSIVE InsertSorted(_, _)
InsertSorted(sorted, c) ==
    IF sorted = <<>> THEN <<c>>
    ELSE IF SortKeyLeq(sorted[Len(sorted)], c) THEN Append(sorted, c)
    ELSE Append(InsertSorted(SubSeq(sorted, 1, Len(sorted) - 1), c), sorted[Len(sorted)])

RECURSIVE StableSort(_)
StableSort(cs) ==
    IF cs = <<>> THEN <<>>
    ELSE InsertSorted(StableSort(SubSeq(cs, 1, Len(cs) - 1)), cs[Len(cs)])

deduplicate_candidates(cs, thresh) ==
    IF cs = <<>> THEN [status |-> "returned", out |-> <<>>]
    ELSE LET g == BuildGroups(cs, thresh, 1, {}, <<>>)
         IN  IF g.raised THEN [status |-> "raised", out |-> <<>>]
             ELSE [status |-> "returned",
                   out |-> StableSort([k \in 1..Len(g.groups) |->
                                          MergeGroup(cs, g.groups[k])])]

----------------------------------------------------------------------------
(* Inputs of the deduplication runs *)

BoxAt(y) == <<10, y, 200, y + 20>>

DupKinds ==
    { \* one item read three times down a page, 40 pixels apart
      [page |-> 1, y |-> 0,  desc |-> <<"a">>, amount |-> Some(1000), conf |-> C(80)],
      [page |-> 1, y |-> 40, desc |-> <<"A", "No">>, amount |-> Some(1000), conf |-> C(90)],
      [page |-> 1, y |-> 80, desc |-> <<"a">>, amount |-> Some(1000), conf |-> C(85)],
      \* a longer description on the next page, a sub-cent variant, no amount
      [page |-> 2, y |-> 0,  desc |-> <<"a", "b">>, amount |-> Some(1000), conf |-> C(95)],
      [page |-> 1, y |-> 10, desc |-> <<"b">>, amount |-> Some(1004), conf |-> C(70)],
      [page |-> 1, y |-> 20, desc |-> <<"a">>, amount |-> None, conf |-> C(60)],
      [page |-> 1, y |-> 30, desc |-> <<"a-b">>, amount |-> None, conf |-> C(50)],
      \* amounts 4% and 100% away, a zero and a negative amount
      [page |-> 1, y |-> 20, desc |-> <<"a">>, amount |-> Some(1040), conf |-> C(75)],
      [page |-> 1, y |-> 20, desc |-> <<"a">>, amount |-> Some(2000), conf |-> C(75)],
      [page |-> 1, y |-> 20, desc |-> <<"a">>, amount |-> Some(0), conf |-> C(75)],
      [page |-> 1, y |-> 20, desc |-> <<"a">>, amount |-> Some(-1000), conf |-> C(75)] }

DupLists ==
    { [i \in DOMAIN k |-> Cand(i, k[i].page, BoxAt(k[i].y), k[i].desc,
                               k[i].amount, k[i].conf)] :
        k \in UNION { [1..n -> DupKinds] : n \in 0..MaxDups } }

InitDedupe ==
    /\ pc = "start"
    /\ candidates \in DupLists
    /\ ratio_thresh \in {85, 88}
    /\ deduped = NotRun
    /\ rededuped = NotRun
    /\ RecIdle
    /\ MergeIdle
    /\ PipeIdle
    /\ TableIdle
    /\ ThreadIdle
    /\ RowIdle

Deduplicate ==
    /\ pc = "start"
    /\ deduped' = deduplicate_candidates(candidates, ratio_thresh)
    /\ pc' = "deduped"
    /\ UNCHANGED <<candidates, ratio_thresh, rededuped, recVars, mergeVars, pipeVars, tableVars,
                   threadVars, rowVars>>

\* the list that was returned is deduplicated again with the same threshold
DeduplicateAgain ==
    /\ pc = "deduped"
    /\ deduped.status = "returned"
    /\ rededuped' = deduplicate_candidates(deduped.out, ratio_thresh)
    /\ pc' = "rededuped"
    /\ UNCHANGED <<candidates, ratio_thresh, deduped, recVars, mergeVars, pipeVars, tableVars,
                   threadVars, rowVars>>

NextDedupe == Deduplicate \/ DeduplicateAgain

SpecDedupe == InitDedupe /\ [][NextDedupe]_vars

----------------------------------------------------------------------------
(* Properties of the deduplication runs *)

\* C8 (as claimed): deduplicating the returned list again with the same
\* threshold returns the same candidates (ids, amounts, confidences), the
\* same count and the same order; nothing merges on the second run.
C8_DedupeIdempotent ==
    pc = "rededuped" =>
        /\ rededuped.status = "returned"
        /\ Len(rededuped.out) = Len(deduped.out)
        /\ \A k \in 1..Len(deduped.out) :
              /\ rededuped.out[k].id = deduped.out[k].id
              /\ rededuped.out[k].amount = deduped.out[k].amount
              /\ rededuped.out[k].conf = deduped.out[k].conf

\* candidates i and j of the input were put in one group: one output
\* candidate lists both ids in merged_ids
SameGroup(i, j) ==
    \E k \in 1..Len(deduped.out) :
        /\ candidates[i].id \in Range(deduped.out[k].merged_ids)
        /\ candidates[j].id \in Range(deduped.out[k].merged_ids)

\* both have amounts, equal to within 0.01 after rounding to 2 decimals, and
\* the canonical descriptions pass the threshold
SimilarSameAmount(i, j) ==
    /\ RatioPasses(candidates[i], candidates[j], ratio_thresh)
    /\ candidates[i].amount # None /\ candidates[j].amount # None
    /\ Abs(Round2(Val(candidates[i].amount)) - Round2(Val(candidates[j].amount)))
          < AmtScale \div 100

\* C13 (as claimed): two similar candidates with equal amounts are in one
\* group exactly when they are on different pages or on one page with top
\* edges less than 50 pixels apart.
C13_GroupedIffPlacementAllows ==
    (pc = "deduped" /\ deduped.status = "returned") =>
        \A i, j \in 1..Len(candidates) :
            (i < j /\ SimilarSameAmount(i, j)) =>
                (SameGroup(i, j) <=>
                    \/ candidates[i].page # candidates[j].page
                    \/ Abs(candidates[i].bbox[2] - candidates[j].bbox[2]) < 50)

\* the groups formed by the call, as sequences of positions in the input
GroupsFormed == BuildGroups(candidates, ratio_thresh, 1, {}, <<>>).groups

GroupConfSum(g) == SeqSum([k \in 1..Len(g) |-> candidates[g[k]].conf])

\* C14: every group of two or more comes out as one candidate with the id,
\* description, amount, page and box of a member of highest confidence,
\* merged_ids listing the ids of all members and the mean of the members'
\* confidences; a singleton group comes out unchanged, without merged_ids.
C14_RepresentativeOfGroup ==
    (pc = "deduped" /\ deduped.status = "returned") =>
        /\ Len(deduped.out) = Len(GroupsFormed)
        /\ \A n \in 1..Len(GroupsFormed) :
              LET g == GroupsFormed[n]
              IN  \E k \in 1..Len(deduped.out) :
                    LET out == deduped.out[k]
                    IN  IF Len(g) = 1 THEN out = candidates[g[1]]
                        ELSE /\ \E r \in Range(g) :
                                  /\ \A m \in Range(g) :
                                        candidates[m].conf <= candidates[r].conf
                                  /\ out.id = candidates[r].id
                                  /\ out.desc = candidates[r].desc
                                  /\ out.amount = candidates[r].amount
                                  /\ out.page = candidates[r].page
                                  /\ out.bbox = candidates[r].bbox
                             /\ out.merged_ids = [m \in 1..Len(g) |-> candidates[g[m]].id]
                             /\ Len(g) * out.conf = GroupConfSum(g)

\* a group of three whose member of highest confidence is not the first,
\* next to nothing else
C14_Witness ==
    /\ pc = "deduped" /\ deduped.status = "returned"
    /\ Len(GroupsFormed) = 1 /\ Len(GroupsFormed[1]) = 3
    /\ deduped.out[1].id # candidates[1].id
    /\ deduped.out[1].conf # candidates[deduped.out[1].id].conf

\* a singleton group next to a group of two
C14_WitnessSingleton ==
    /\ pc = "deduped" /\ deduped.status = "returned"
    /\ Len(candidates) = 3 /\ Len(GroupsFormed) = 2
    /\ \E k \in 1..2 : deduped.out[k].merged_ids = <<>>

\* position in the input of the first member of the group that output
\* candidate c stands for
FirstMember(c) ==
    LET first_id == IF c.merged_ids = <<>> THEN c.id ELSE c.merged_ids[1]
    IN  CHOOSE p \in 1..Len(candidates) : candidates[p].id = first_id

\* C26: the returned list is in non-decreasing order of (page, top edge),
\* and output candidates of equal page and top edge are in the order in
\* which the first members of their groups stand in the input.
C26_SortedStable ==
    (pc = "deduped" /\ deduped.status = "returned") =>
        \A k, m \in 1..Len(deduped.out) :
            k < m =>
                LET c == deduped.out[k]
                    d == deduped.out[m]
                IN  /\ \/ c.page < d.page
                       \/ c.page = d.page /\ c.bbox[2] <= d.bbox[2]
                    /\ (c.page = d.page /\ c.bbox[2] = d.bbox[2])
                          => FirstMember(c) < FirstMember(d)

\* the sort moved a candidate forward and left two candidates of equal page
\* and top edge in input order
C26_Witness ==
    /\ pc = "deduped" /\ deduped.status = "returned"
    /\ Len(deduped.out) = 3
    /\ deduped.out[1].id # 1
    /\ \E k \in 1..2 :
          /\ deduped.out[k].page = deduped.out[k + 1].page
          /\ deduped.out[k].bbox[2] = deduped.out[k + 1].bbox[2]

\* C28 (as claimed): deduplicate_candidates returns a list for every list of
\* candidates, whatever their amounts, also when two similar candidates both
\* have amount 0 or one has amount 0 and the other a negative amount.
C28_DedupeNeverRaises ==
    pc = "deduped" => deduped.status = "returned"

----------------------------------------------------------------------------
(* Runs of the duplicate-group detector on its own *)

GroupKinds ==
    { [desc |-> <<"a", "b">>,       amount |-> Some(2000)],
      [desc |-> <<"A", "b">>,       amount |-> Some(2004)],
      [desc |-> <<"a-b">>,          amount |-> Some(2000)],
      [desc |-> <<"a", "b", "No">>, amount |-> Some(2000)],
      [desc |-> <<"c">>,            amount |-> Some(1000)],
      [desc |-> <<"a", "b">>,       amount |-> None] }

\* candidate lists of a document of one or two pages, as in RecLists
GroupLists ==
    { [i \in DOMAIN kf[1] |->
         Cand(IF i <= kf[2] THEN i ELSE i - kf[2],
              IF i <= kf[2] THEN 1 ELSE 2,
              Box0, kf[1][i].desc, kf[1][i].amount, C(90))] :
        kf \in UNION { [1..n -> GroupKinds] \X (IF n = 0 THEN {0} ELSE 1..n) :
                         n \in 0..MaxCands } }

InitGroups ==
    /\ pc = "start"
    /\ candidates \in GroupLists
    /\ RecIdle
    /\ MergeIdle
    /\ DedupeIdle
    /\ PipeIdle
    /\ TableIdle
    /\ ThreadIdle
    /\ RowIdle

NextGroups == MakeGroups

SpecGroups == InitGroups /\ [][NextGroups]_vars

\* the ids of candidates i and j are listed in one group
InOneGroup(i, j) ==
    \E g \in 1..Len(duplicate_groups) :
        /\ candidates[i].id \in Range(duplicate_groups[g])
        /\ candidates[j].id \in Range(duplicate_groups[g])

\* C15 (as claimed): two candidates are in one group iff both have an
\* amount, the amounts are equal after rounding to 2 decimals and the
\* canonical descriptions are equal; every group has at least 2 ids, the
\* groups are pairwise disjoint, and no candidate without an amount is in
\* a group.
C15_GroupsByCanonicalKey ==
    pc = "grouped" =>
        /\ \A i, j \in 1..Len(candidates) :
              i # j =>
                (InOneGroup(i, j) <=>
                    /\ candidates[i].amount # None /\ candidates[j].amount # None
                    /\ Round2(Val(candidates[i].amount)) = Round2(Val(candidates[j].amount))
                    /\ canonicalize_description(candidates[i].desc)
                          = canonicalize_description(candidates[j].desc))
        /\ \A g \in 1..Len(duplicate_groups) :
              Cardinality(Range(duplicate_groups[g])) >= 2
        /\ \A g, h \in 1..Len(duplicate_groups) :
              g # h => Range(duplicate_groups[g]) \cap Range(duplicate_groups[h]) = {}
        /\ \A i \in 1..Len(candidates) :
              candidates[i].amount = None =>
                  \A g \in 1..Len(duplicate_groups) :
                      candidates[i].id \notin Range(duplicate_groups[g])

----------------------------------------------------------------------------
(* text_based_extraction.py: extract_line_item_from_row *)

Tok(text, amount, conf, left, top) ==
    [text |-> text, amount |-> amount, conf |-> conf,
     left |-> left, top |-> top, width |-> 40, height |-> 20]

RECURSIVE SeqMin(_)
SeqMin(s) == IF Len(s) = 1 THEN s[1] ELSE Min(Head(s), SeqMin(Tail(s)))

RECURSIVE SeqMax(_)
SeqMax(s) == IF Len(s) = 1 THEN s[1] ELSE Max(Head(s), SeqMax(Tail(s)))

\* the candidate of a row as a one-element sequence, or <<>> for None;
\* toks is row_tokens; token.amount is extract_amount_from_cell_text(token.text)
extract_line_item_from_row(toks) ==
    IF toks = <<>> THEN <<>>
    ELSE LET IsAmount(t) == t.amount # None
             IsText(t) == t.amount = None
             amount_candidates == SelectSeq(toks, IsAmount)
             desc_tokens == SelectSeq(toks, IsText)
             NonZero(t) == Val(t.amount) > AmtScale \div 100
             non_zero_amounts == SelectSeq(amount_candidates, NonZero)
             best_amount == IF non_zero_amounts # <<>>
                            THEN non_zero_amounts[Len(non_zero_amounts)].amount
                            ELSE amount_candidates[Len(amount_candidates)].amount
             n == Len(toks)
         IN  IF amount_candidates = <<>> THEN <<>>
             ELSE << [desc |-> [k \in 1..Len(desc_tokens) |-> desc_tokens[k].text],
                      amount |-> best_amount,
                      conf |-> SeqSum([k \in 1..n |-> toks[k].conf]) \div n,
                      bbox |-> << SeqMin([k \in 1..n |-> toks[k].left]),
                                  SeqMin([k \in 1..n |-> toks[k].top]),
                                  SeqMax([k \in 1..n |-> toks[k].left
                                                         + toks[k].width]),
                                  SeqMax([k \in 1..n |-> toks[k].top
                                                         + toks[k].height]) >>,
                      raw_cells |-> [k \in 1..n |-> toks[k].text]] >>

----------------------------------------------------------------------------
(* Inputs of the row runs *)

\* what OCR reads in one token: a word, or a number and its value
TokenKinds ==
    { [text |-> "a",    amount |-> None],
      [text |-> "b",    amount |-> None],
      [text |-> "1.00", amount |-> Some(1 * AmtScale)],
      [text |-> "1.00", amount |-> Some(2 * AmtScale)],
      [text |-> "1.00", amount |-> Some(0)],
      [text |-> "1.00", amount |-> Some(-5 * AmtScale)],
      [text |-> "1.00", amount |-> Some(AmtScale \div 100)] }

\* rows as cluster_tokens_into_rows returns them: sorted left to right
RowTokenLists ==
    { [i \in DOMAIN k |-> Tok(k[i].text, k[i].amount, C(90), 10 + 50 * (i - 1), 200)] :
        k \in UNION { [1..n -> TokenKinds] : n \in 0..MaxTokens } }

InitRow ==
    /\ pc = "row"
    /\ candidates = <<>>
    /\ row_tokens \in RowTokenLists
    /\ line_item = NotRun
    /\ RecIdle
    /\ MergeIdle
    /\ DedupeIdle
    /\ PipeIdle
    /\ TableIdle
    /\ ThreadIdle

ExtractLineItem ==
    /\ pc = "row"
    /\ line_item' = [status |-> "returned", out |-> extract_line_item_from_row(row_tokens)]
    /\ pc' = "extracted"
    /\ UNCHANGED <<candidates, row_tokens, recVars, mergeVars, dedupeVars, pipeVars,
                   tableVars, threadVars>>

NextRow == ExtractLineItem

SpecRow == InitRow /\ [][NextRow]_vars

----------------------------------------------------------------------------
(* Properties of the row runs *)

\* the positions of the numeric tokens of the row
AmountTokens == {k \in 1..Len(row_tokens) : row_tokens[k].amount # None}

\* C24 (as claimed): the amount of a row is that of its rightmost numeric
\* token whose value is not zero, positive or negative, and that of the last
\* numeric token only when every numeric token of the row is zero.
C24_RightmostNonZeroAmount ==
    (pc = "extracted" /\ line_item.out # <<>>) =>
        LET non_zero == {k \in AmountTokens : Val(row_tokens[k].amount) # 0}
            from == IF non_zero # {} THEN non_zero ELSE AmountTokens
            k == CHOOSE m \in from : \A o \in from : o <= m
        IN  line_item.out[1].amount = row_tokens[k].amount

----------------------------------------------------------------------------
(* text_based_extraction.py: extract_candidates_text_based *)

UnreasonableAmount == 999999999

\* candidate['amount'] and abs(candidate['amount']) > 999999999
AmountUnreasonable(a) ==
    /\ Val(a) # 0
    /\ \/ Abs(Val(a)) \div AmtScale > UnreasonableAmount
       \/ Abs(Val(a)) \div AmtScale = UnreasonableAmount /\ Abs(Val(a)) % AmtScale > 0

\* any(keyword in desc_lower for keyword in total_keywords)
HasTotalKeyword(desc) == \E k \in 1..Len(desc) : LowerTok(desc[k]) = "total"

\* the loop over the rows; candidate_id is the next id to hand out
RECURSIVE ExtractRows(_, _, _, _, _)
ExtractRows(row_list, idx, page, candidate_id, out) ==
    IF idx > Len(row_list) THEN out
    ELSE LET found == extract_line_item_from_row(row_list[idx])
         IN  IF found = <<>> THEN ExtractRows(row_list, idx + 1, page, candidate_id, out)
             ELSE LET c == found[1]
                  IN  IF \/ DescLen(c.desc) < 3
                         \/ AmountUnreasonable(c.amount)
                         \/ HasTotalKeyword(c.desc)
                      THEN ExtractRows(row_list, idx + 1, page, candidate_id, out)
                      ELSE ExtractRows(row_list, idx + 1, page, candidate_id + 1,
                               Append(out, [id |-> candidate_id, page |-> page,
                                            bbox |-> c.bbox, raw_cells |-> c.raw_cells,
                                            desc |-> c.desc, amount |-> c.amount,
                                            conf |-> c.conf, merged_ids |-> <<>>]))

\* row_list is cluster_tokens_into_rows of the page's OCR tokens
extract_candidates_text_based(row_list, page) ==
    IF row_list = <<>> THEN <<>>
    ELSE ExtractRows(row_list, 1, page, 1, <<>>)

----------------------------------------------------------------------------
(* dedupe.py: repeated_header_footer_filter *)

PageHeight == 1000
PageWidth == 800

\* int(ref_height * 0.15)
StripHeight == (PageHeight * 15) \div 100

\* the regions marked by _detect_repeated_regions, as records page, bbox
_detect_repeated_regions(n_pages, hsim, fsim) ==
    LET Count(sim) == Cardinality({k \in 1..Len(sim) : sim[k]})
        header == IF Count(hsim) >= n_pages - 1
                  THEN [k \in 1..n_pages |->
                          [page |-> k, bbox |-> <<0, 0, PageWidth, StripHeight>>]]
                  ELSE <<>>
        footer == IF Count(fsim) >= n_pages - 1
                  THEN [k \in 1..n_pages |->
                          [page |-> k,
                           bbox |-> <<0, PageHeight - StripHeight, PageWidth, PageHeight>>]]
                  ELSE <<>>
    IN  IF n_pages < 2 THEN <<>> ELSE header \o footer

\* variant: touching edges do not count as an intersection
_bbox_intersects_region_TouchExcluded(bbox, region_bbox) ==
    ~ \/ bbox[3] <= region_bbox[1]
      \/ bbox[1] >= region_bbox[3]
      \/ bbox[4] <= region_bbox[2]
      \/ bbox[2] >= region_bbox[4]

_bbox_intersects_region(bbox, region_bbox) ==
    ~ \/ bbox[3] < region_bbox[1]
      \/ bbox[1] > region_bbox[3]
      \/ bbox[4] < region_bbox[2]
      \/ bbox[2] > region_bbox[4]

repeated_header_footer_filter(cs, n_pages, hsim, fsim) ==
    IF cs = <<>> \/ n_pages < 2 THEN [remaining |-> cs, filtered |-> <<>>]
    ELSE LET regions == _detect_repeated_regions(n_pages, hsim, fsim)
             Hit(c) == /\ c.bbox # None
                       /\ \E r \in 1..Len(regions) :
                             /\ regions[r].page = c.page
                             /\ _bbox_intersects_region(c.bbox, regions[r].bbox)
             Miss(c) == ~ Hit(c)
         IN  IF regions = <<>> THEN [remaining |-> cs, filtered |-> <<>>]
             ELSE [remaining |-> SelectSeq(cs, Miss), filtered |-> SelectSeq(cs, Hit)]

----------------------------------------------------------------------------
(* Inputs of the filter runs *)

\* boxes inside, touching and just outside the header and footer strips and
\* the right edge of the page, a box in the body, and a missing box
FilterKinds ==
    { [page |-> 1, bbox |-> <<10, 50, 100, 70>>],
      [page |-> 1, bbox |-> <<10, StripHeight, 100, StripHeight + 20>>],
      [page |-> 1, bbox |-> <<10, StripHeight + 1, 100, StripHeight + 21>>],
      [page |-> 1, bbox |-> <<10, 400, 100, 420>>],
      [page |-> 1, bbox |-> <<10, PageHeight - StripHeight - 20, 100,
                              PageHeight - StripHeight>>],
      [page |-> 1, bbox |-> <<10, PageHeight - StripHeight - 21, 100,
                              PageHeight - StripHeight - 1>>],
      [page |-> 1, bbox |-> <<PageWidth, 50, PageWidth + 40, 70>>],
      [page |-> 1, bbox |-> <<PageWidth + 1, 50, PageWidth + 41, 70>>],
      [page |-> 1, bbox |-> None],
      [page |-> 2, bbox |-> <<10, 50, 100, 70>>],
      [page |-> 2, bbox |-> <<10, 400, 100, 420>>],
      [page |-> 3, bbox |-> <<10, 950, 100, 970>>] }

FilterLists ==
    { [i \in DOMAIN k |-> Cand(i, k[i].page, k[i].bbox, <<"a", "b">>,
                               Some(AmtScale), C(90))] :
        k \in UNION { [1..n -> FilterKinds] : n \in 0..MaxFiltered } }

\* the document has 0 to MaxPages + 1 pages; their text plays no part
InitFilter ==
    /\ pc = "start"
    /\ \E n \in 0..(MaxPages + 1) :
          /\ pages = [k \in 1..n |-> <<>>]
          /\ header_sim \in [1..(n - 1) -> BOOLEAN]
          /\ footer_sim \in [1..(n - 1) -> BOOLEAN]
          /\ candidates \in {cs \in FilterLists :
                                \A i \in 1..Len(cs) : cs[i].page <= Max(n, 1)}
    /\ page_no = 1
    /\ all_candidates = <<>>
    /\ filtered = <<>>
    /\ deduped_candidates = NotRun
    /\ use_reported_total = None
    /\ response_data = NoResponse
    /\ RecIdle
    /\ MergeIdle
    /\ DedupeIdle
    /\ TableIdle
    /\ ThreadIdle
    /\ RowIdle

\* remaining, filtered = repeated_header_footer_filter(candidates, pages_images)
FilterCall ==
    /\ pc = "start"
    /\ LET r == repeated_header_footer_filter(candidates, Len(pages),
                                              header_sim, footer_sim)
       IN  all_candidates' = r.remaining /\ filtered' = r.filtered
    /\ pc' = "filter_done"
    /\ UNCHANGED <<candidates, pages, header_sim, footer_sim, page_no,
                   deduped_candidates, use_reported_total, response_data,
                   recVars, mergeVars, dedupeVars,
                   tableVars, threadVars, rowVars>>

NextFilter == FilterCall

SpecFilter == InitFilter /\ [][NextFilter]_vars

----------------------------------------------------------------------------
(* Properties of the filter runs *)

\* every page after the first matches the first page's strip
AllOthersMatch(sim) == \A k \in 1..Len(sim) : sim[k]

HeaderStrip == <<0, 0, PageWidth, StripHeight>>
FooterStrip == <<0, PageHeight - StripHeight, PageWidth, PageHeight>>

\* the strips marked on every page of the document
MarkedStrips ==
    IF Len(pages) < 2 THEN {}
    ELSE (IF AllOthersMatch(header_sim) THEN {HeaderStrip} ELSE {})
         \cup (IF AllOthersMatch(footer_sim) THEN {FooterStrip} ELSE {})

\* two rectangles overlap unless the far edge of one lies strictly before the
\* near edge of the other on some axis
Overlap(a, b) ==
    ~ \/ a[3] < b[1] \/ b[3] < a[1]
      \/ a[4] < b[2] \/ b[4] < a[2]

C25_WitnessNotAllMatch ==
    /\ pc = "filter_done"
    /\ Len(pages) = 3
    /\ header_sim = <<TRUE, FALSE>> /\ footer_sim = <<FALSE, TRUE>>
    /\ \E i \in 1..Len(candidates) : candidates[i].bbox = <<10, 50, 100, 70>>
    /\ filtered = <<>>

----------------------------------------------------------------------------
(* app.py: extract_bill_data, steps 3 to 9 *)

\* a row of word tokens followed by amount tokens, all at height `top`
Row(top, words, amounts) ==
    [k \in 1..Len(words) |-> Tok(words[k], None, C(90), 10 + 50 * (k - 1), top)]
    \o [k \in 1..Len(amounts) |->
          Tok("1.00", Some(amounts[k]), C(80), 300 + 100 * (k - 1), top)]

PageKinds ==
    { << Row(200, <<"a", "b">>, <<1000>>) >>,
      << Row(200, <<"a", "b">>, <<1000>>), Row(260, <<"c", "d">>, <<2000>>) >>,
      << Row(200, <<"c", "d">>, <<2000, 0>>), Row(900, <<"Total">>, <<3000>>) >>,
      << Row(50, <<"a", "b">>, <<1000>>), Row(300, <<"cont">>, <<2004>>) >>,
      << Row(200, <<"a">>, <<1000>>), Row(260, <<"a", "b">>, <<>>) >>,
      << Row(200, <<"a", "b">>, <<-1000>>), Row(940, <<"c", "d">>, <<0>>) >>,
      \* one item printed twice on a page, and two items with sub-cent amounts
      << Row(200, <<"a", "b">>, <<1000 * AmtScale>>),
         Row(260, <<"a", "b">>, <<1000 * AmtScale>>) >>,
      << Row(200, <<"a", "b">>, <<2004>>), Row(260, <<"c", "d">>, <<2004>>) >> }

Documents ==
    UNION { [1..n -> PageKinds] : n \in 1..MaxPages }

InitPipe ==
    /\ pc = "pages"
    /\ candidates = <<>>
    /\ pages \in Documents
    /\ header_sim \in [1..(Len(pages) - 1) -> BOOLEAN]
    /\ footer_sim \in [1..(Len(pages) - 1) -> BOOLEAN]
    /\ page_no = 1
    /\ all_candidates = <<>>
    /\ filtered = <<>>
    /\ deduped_candidates = NotRun
    /\ use_reported_total = None
    /\ response_data = NoResponse
    /\ RecIdle
    /\ MergeIdle
    /\ DedupeIdle
    /\ TableIdle
    /\ ThreadIdle
    /\ RowIdle

\* step 3, one iteration of the loop over the pages
ProcessPage ==
    /\ pc = "pages"
    /\ page_no <= Len(pages)
    /\ all_candidates' =
          all_candidates \o extract_candidates_text_based(pages[page_no], page_no)
    /\ page_no' = page_no + 1
    /\ UNCHANGED <<pc, candidates, pages, header_sim, footer_sim, filtered,
                   deduped_candidates, use_reported_total, response_data,
                   recVars, mergeVars, dedupeVars,
                   tableVars, threadVars, rowVars>>

\* step 4
MergeStep ==
    /\ pc = "pages"
    /\ page_no > Len(pages)
    /\ all_candidates' = merge_wrapped_rows(all_candidates).merged
    /\ pc' = "merged"
    /\ UNCHANGED <<candidates, pages, header_sim, footer_sim, page_no, filtered,
                   deduped_candidates, use_reported_total, response_data,
                   recVars, mergeVars, dedupeVars,
                   tableVars, threadVars, rowVars>>

\* step 5
FilterStep ==
    /\ pc = "merged"
    /\ IF Len(pages) > 1
       THEN LET r == repeated_header_footer_filter(all_candidates, Len(pages),
                                                   header_sim, footer_sim)
            IN  all_candidates' = r.remaining /\ filtered' = r.filtered
       ELSE UNCHANGED <<all_candidates, filtered>>
    /\ pc' = "filtered"
    /\ UNCHANGED <<candidates, pages, header_sim, footer_sim, page_no,
                   deduped_candidates, use_reported_total, response_data,
                   recVars, mergeVars, dedupeVars,
                   tableVars, threadVars, rowVars>>

\* step 6; an exception ends the request with an error response
DedupeStep ==
    /\ pc = "filtered"
    /\ deduped_candidates' = deduplicate_candidates(all_candidates, 85)
    /\ pc' = IF deduped_candidates'.status = "raised" THEN "failed" ELSE "deduped"
    /\ UNCHANGED <<candidates, pages, header_sim, footer_sim, page_no,
                   all_candidates, filtered, use_reported_total, response_data,
                   recVars, mergeVars, dedupeVars,
                   tableVars, threadVars, rowVars>>

\* sum(c.get('amount', 0.0) or 0.0 for c in deduped_candidates)
CandidatesSum(cs) == SeqSum([k \in 1..Len(cs) |-> OrZero(cs[k].amount)])

\* what extract_reported_total and its text-based fallback can find on the
\* pages: nothing, or a positive amount
FoundTotals ==
    { None, Some(3 * AmtScale), Some(1015 * AmtScale), Some(1500 * AmtScale) }

\* step 7, with the final fallback to the sum of the candidates
ExtractTotal ==
    /\ pc = "deduped"
    /\ \E found \in FoundTotals :
          LET candidates_sum == CandidatesSum(deduped_candidates.out)
          IN  reported_total' =
                 IF found = None /\ deduped_candidates.out # <<>> /\ candidates_sum > 0
                 THEN Some(candidates_sum)
                 ELSE found
    /\ pc' = "totalled"
    /\ UNCHANGED <<candidates, pipeVars, tolerance, duplicate_groups, backend,
                   result, first_result, first_tolerance, mergeVars, dedupeVars,
                   tableVars, threadVars, rowVars>>

\* step 8, the decision on the target and the tolerance:
\* deviation_ratio = abs(reported_total - candidates_sum) / reported_total
CallerPolicy(total, candidates_sum) ==
    IF total # None /\ Val(total) # 0 /\ candidates_sum > 0
    THEN LET dev == Abs(Val(total) - candidates_sum)
         IN  IF Val(total) < 0 \/ 100 * dev <= 2 * Val(total)
             THEN [use_reported_total |-> total, tolerance |-> 5 * AmtScale]
             ELSE IF 2 * dev > Val(total)
             THEN [use_reported_total |-> None, tolerance |-> 5 * AmtScale]
             ELSE [use_reported_total |-> total,
                   tolerance |-> Max(5 * AmtScale, dev)]
    ELSE [use_reported_total |-> None, tolerance |-> 5 * AmtScale]

\* step 8
ReconcileStep ==
    /\ pc = "totalled"
    /\ LET cs == deduped_candidates.out
           groups == make_duplicate_groups_from_candidates(cs)
           policy == CallerPolicy(reported_total, CandidatesSum(cs))
       IN  /\ duplicate_groups' = groups
           /\ use_reported_total' = policy.use_reported_total
           /\ tolerance' = policy.tolerance
           /\ result' \in ilp_reconcile(cs, policy.use_reported_total, groups,
                                        policy.tolerance, backend)
    /\ pc' = "reconciled"
    /\ UNCHANGED <<candidates, pages, header_sim, footer_sim, page_no,
                   all_candidates, filtered, deduped_candidates, response_data,
                   reported_total, backend, first_result, first_tolerance,
                   mergeVars, dedupeVars, tableVars, threadVars, rowVars>>

\* the elements of a set of integers in increasing order
RECURSIVE SortedSeq(_)
SortedSeq(S) ==
    IF S = {} THEN <<>>
    ELSE LET m == CHOOSE x \in S : \A y \in S : x <= y
         IN  <<m>> \o SortedSeq(S \ {m})

\* round(conf, 2), as an integer number of hundredths of a point
RoundConf2(conf) ==
    LET q == (100 * conf) \div ConfScale
        r == (100 * conf) % ConfScale
    IN  IF 2 * r < ConfScale THEN q
        ELSE IF 2 * r > ConfScale THEN q + 1
        ELSE IF q % 2 = 0 THEN q ELSE q + 1

\* app.py build_response; page_no is the page number (a string in the code)
build_response(cs, reconcile_result, total) ==
    LET selected_ids == Range(reconcile_result.selected_ids)
        Selected(c) == c.id \in selected_ids
        selected_candidates == SelectSeq(cs, Selected)
        page_nos == SortedSeq({selected_candidates[k].page :
                                  k \in 1..Len(selected_candidates)})
        Item(c) == [item_name |-> c.desc,
                    item_amount |-> IF c.amount # None
                                    THEN Some(Round2(Val(c.amount))) ELSE None,
                    item_rate |-> None,
                    item_quantity |-> None,
                    confidence |-> RoundConf2(c.conf)]
        ItemsOf(page) ==
            LET OnPage(c) == c.page = page
                on_page == SelectSeq(selected_candidates, OnPage)
            IN  [k \in 1..Len(on_page) |-> Item(on_page[k])]
    IN  [pagewise_line_items |->
            [i \in 1..Len(page_nos) |->
                [page_no |-> page_nos[i], bill_items |-> ItemsOf(page_nos[i])]],
         total_item_count |-> Len(selected_candidates),
         reconciled_amount |-> Round2(reconcile_result.selected_total)]

\* step 9
BuildResponse ==
    /\ pc = "reconciled"
    /\ response_data' = build_response(deduped_candidates.out, result, reported_total)
    /\ pc' = "responded"
    /\ UNCHANGED <<candidates, pages, header_sim, footer_sim, page_no,
                   all_candidates, filtered, deduped_candidates,
                   use_reported_total, recVars, mergeVars, dedupeVars,
                   tableVars, threadVars, rowVars>>

NextPipe ==
    \/ ProcessPage \/ MergeStep \/ FilterStep \/ DedupeStep
    \/ ExtractTotal \/ ReconcileStep \/ BuildResponse

SpecPipe == InitPipe /\ [][NextPipe]_vars

----------------------------------------------------------------------------
(* Properties of the pipeline runs *)

DistinctIds(cs) ==
    \A i, j \in 1..Len(cs) : i # j => cs[i].id # cs[j].id

\* C7 (as claimed): once the pages are assembled, merged, filtered and
\* deduplicated, no two candidates of the run share an id, candidates of
\* different pages included.
C7_IdsUniqueInRun ==
    pc = "deduped" => DistinctIds(deduped_candidates.out)

----------------------------------------------------------------------------
(* candidates.py: assemble_candidates_from_table *)

\* table_roi_bgr is None or table_roi_bgr.size == 0
RoiEmpty(roi) == roi = None \/ roi[1].height = 0 \/ roi[1].width = 0

\* the cells of one row that pass the column checks, in column order:
\* position in cols, text (stripped), amount and confidence read by OCR;
\* a cell whose OCR raises contributes an empty text and nothing else
RECURSIVE ReadCells(_, _, _, _)
ReadCells(roi, cs, col_idx, acc) ==
    IF col_idx > Len(cs) THEN acc
    ELSE LET col == cs[col_idx]
         IN  IF col.start < 0 \/ col.end > roi[1].width
             THEN ReadCells(roi, cs, col_idx + 1, acc)
             ELSE IF col.end - col.start < 5
             THEN ReadCells(roi, cs, col_idx + 1, acc)
             ELSE IF col.fails
             THEN ReadCells(roi, cs, col_idx + 1,
                      [acc EXCEPT !.cell_texts = Append(@, <<>>)])
             ELSE ReadCells(roi, cs, col_idx + 1,
                      [cell_texts |-> Append(acc.cell_texts, col.text),
                       cell_confidences |-> Append(acc.cell_confidences, col.conf),
                       numeric_cells |->
                          IF col.amount # None
                          THEN acc.numeric_cells
                                 \cup {[col_idx |-> col_idx, amount |-> col.amount]}
                          ELSE acc.numeric_cells])

\* the loop over enumerate(cell_texts) that builds desc_parts
RECURSIVE DescParts(_, _, _)
DescParts(cell_texts, numeric_cells, idx) ==
    IF idx > Len(cell_texts) THEN <<>>
    ELSE IF \E nc \in numeric_cells : nc.col_idx = idx THEN <<>>
    ELSE cell_texts[idx] \o DescParts(cell_texts, numeric_cells, idx + 1)

\* the columns used once `if not cols` has run: the whole row as one cell
WholeRow(roi) ==
    << [start |-> 0, end |-> roi[1].width, text |-> <<"a", "b">>, amount |-> None,
        conf |-> C(90), fails |-> FALSE] >>

\* the candidate built for one row that passed the row checks
RowCandidate(roi, row, cs, page, id) ==
    LET cells == ReadCells(roi, cs, 1,
                    [cell_texts |-> <<>>, cell_confidences |-> <<>>,
                     numeric_cells |-> {}])
        conf == IF cells.cell_confidences # <<>>
                THEN SeqSum(cells.cell_confidences) \div Len(cells.cell_confidences)
                ELSE 0
        amount == IF cells.numeric_cells # {}
                  THEN (CHOOSE nc \in cells.numeric_cells :
                           \A o \in cells.numeric_cells : o.col_idx <= nc.col_idx).amount
                  ELSE None
    IN  [id |-> id, page |-> page,
         bbox |-> <<cs[1].start, row[1], cs[Len(cs)].end, row[2]>>,
         raw_cells |-> cells.cell_texts,
         desc |-> DescParts(cells.cell_texts, cells.numeric_cells, 1),
         amount |-> amount, conf |-> conf, merged_ids |-> <<>>]

\* the loop over the rows; counter is _candidate_id_counter
RECURSIVE AssembleRows(_, _, _, _, _, _, _)
AssembleRows(roi, rs, cs, page, idx, counter, out) ==
    IF idx > Len(rs) THEN [status |-> "returned", out |-> out, counter |-> counter]
    ELSE LET row == rs[idx]
         IN  IF row[1] < 0 \/ row[2] > roi[1].height
             THEN AssembleRows(roi, rs, cs, page, idx + 1, counter, out)
             ELSE IF row[2] - row[1] < 5
             THEN AssembleRows(roi, rs, cs, page, idx + 1, counter, out)
             ELSE LET cs1 == IF cs = <<>> THEN WholeRow(roi) ELSE cs
                      c == RowCandidate(roi, row, cs1, page, counter + 1)
                  IN  AssembleRows(roi, rs, cs1, page, idx + 1, counter + 1,
                          IF c.desc # <<>> \/ c.amount # None
                          THEN Append(out, c) ELSE out)

assemble_candidates_from_table(roi, rs, cs, page, counter) ==
    IF RoiEmpty(roi) THEN [status |-> "raised", out |-> <<>>, counter |-> counter]
    ELSE IF rs = <<>> THEN [status |-> "returned", out |-> <<>>, counter |-> counter]
    ELSE AssembleRows(roi, rs, cs, page, 1, counter, <<>>)

----------------------------------------------------------------------------
(* Inputs of the table runs *)

RoiKinds ==
    { None, Some([height |-> 0, width |-> 200]), Some([height |-> 100, width |-> 200]) }

\* well-formed rows, a thin row, a negative row and a row beyond the region
RowLists ==
    { <<>>,
      << <<10, 30>> >>,
      << <<10, 30>>, <<30, 50>> >>,
      << <<10, 30>>, <<30, 33>> >>,
      << <<-5, 20>>, <<30, 50>> >>,
      << <<10, 30>>, <<90, 110>> >>,
      << <<-5, 20>> >> }

Col(start, end, text, amount, conf, fails) ==
    [start |-> start, end |-> end, text |-> text, amount |-> amount, conf |-> conf,
     fails |-> fails]

\* a column and what OCR reads in its cells
ColKinds ==
    { Col(0, 100,   <<"a">>,    None,       C(90), FALSE),
      Col(0, 100,   <<"b">>,    None,       C(80), FALSE),
      Col(0, 100,   <<>>,       None,       0,     FALSE),
      Col(100, 150, <<"1.00">>, Some(1000), C(70), FALSE),
      Col(150, 200, <<"1.00">>, Some(2000), C(60), FALSE),
      Col(0, 100,   <<"a">>,    None,       C(90), TRUE),
      Col(0, 3,     <<"b">>,    None,       C(80), FALSE),
      Col(-5, 100,  <<"b">>,    None,       C(80), FALSE),
      Col(150, 210, <<"1.00">>, Some(2000), C(60), FALSE) }

ColLists == UNION { [1..n -> ColKinds] : n \in 0..MaxCols }

InitTable ==
    /\ pc = "start"
    /\ candidates = <<>>
    /\ table_roi_bgr \in RoiKinds
    /\ rows \in RowLists
    /\ cols \in ColLists
    /\ _candidate_id_counter \in {0, 7}
    /\ table_result = NotRun
    /\ RecIdle
    /\ MergeIdle
    /\ DedupeIdle
    /\ PipeIdle
    /\ ThreadIdle
    /\ RowIdle

AssembleTable ==
    /\ pc = "start"
    /\ LET r == assemble_candidates_from_table(table_roi_bgr, rows, cols, page_no,
                                               _candidate_id_counter)
       IN  /\ table_result' = [status |-> r.status, out |-> r.out]
           /\ _candidate_id_counter' = r.counter
    /\ pc' = "assembled"
    /\ UNCHANGED <<candidates, table_roi_bgr, rows, cols, recVars, mergeVars,
                   dedupeVars, pipeVars, threadVars, rowVars>>

NextTable == AssembleTable

SpecTable == InitTable /\ [][NextTable]_vars

----------------------------------------------------------------------------
(* Properties of the table runs *)

\* an empty region, or a row or column interval that is negative or extends
\* beyond the region
MalformedGeometry ==
    \/ RoiEmpty(table_roi_bgr)
    \/ \E k \in 1..Len(rows) :
          rows[k][1] < 0 \/ rows[k][2] > table_roi_bgr[1].height
    \/ \E k \in 1..Len(cols) :
          cols[k].start < 0 \/ cols[k].end > table_roi_bgr[1].width

\* C16 (as claimed): a call with malformed geometry is rejected and returns
\* no candidates.
C16_MalformedGeometryRejected ==
    (pc = "assembled" /\ MalformedGeometry) =>
        /\ table_result.status = "raised"
        /\ table_result.out = <<>>

----------------------------------------------------------------------------
(* candidates.py: two concurrent calls of assemble_candidates_from_table *)

Threads == {1, 2}

\* each call has between one and MaxThreadRows rows that pass the row checks
InitThreads ==
    /\ pc = "threads"
    /\ candidates = <<>>
    /\ _candidate_id_counter = 0
    /\ thread_rows \in [Threads -> 1..MaxThreadRows]
    /\ thread_pc = [t \in Threads |-> "load"]
    /\ thread_reg = [t \in Threads |-> 0]
    /\ thread_ids = [t \in Threads |-> <<>>]
    /\ table_roi_bgr = None /\ rows = <<>> /\ cols = <<>> /\ table_result = NotRun
    /\ RecIdle
    /\ MergeIdle
    /\ DedupeIdle
    /\ PipeIdle
    /\ RowIdle

\* _candidate_id_counter += 1: the global is read
LoadCounter(t) ==
    /\ thread_pc[t] = "load"
    /\ thread_reg' = [thread_reg EXCEPT ![t] = _candidate_id_counter]
    /\ thread_pc' = [thread_pc EXCEPT ![t] = "store"]
    /\ UNCHANGED <<pc, candidates, _candidate_id_counter, thread_rows, thread_ids,
                   table_roi_bgr, rows, cols, table_result, recVars, mergeVars,
                   dedupeVars, pipeVars, rowVars>>

\* _candidate_id_counter += 1: the sum is written back
StoreCounter(t) ==
    /\ thread_pc[t] = "store"
    /\ _candidate_id_counter' = thread_reg[t] + 1
    /\ thread_pc' = [thread_pc EXCEPT ![t] = "take"]
    /\ UNCHANGED <<pc, candidates, thread_reg, thread_rows, thread_ids,
                   table_roi_bgr, rows, cols, table_result, recVars, mergeVars,
                   dedupeVars, pipeVars, rowVars>>

\* 'id': _candidate_id_counter: the global is read again for the candidate
TakeId(t) ==
    /\ thread_pc[t] = "take"
    /\ thread_ids' = [thread_ids EXCEPT ![t] = Append(@, _candidate_id_counter)]
    /\ thread_rows' = [thread_rows EXCEPT ![t] = @ - 1]
    /\ thread_pc' = [thread_pc EXCEPT ![t] = IF thread_rows[t] = 1 THEN "done" ELSE "load"]
    /\ UNCHANGED <<pc, candidates, _candidate_id_counter, thread_reg,
                   table_roi_bgr, rows, cols, table_result, recVars, mergeVars,
                   dedupeVars, pipeVars, rowVars>>

NextThreads == \E t \in Threads : LoadCounter(t) \/ StoreCounter(t) \/ TakeId(t)

SpecThreads == InitThreads /\ [][NextThreads]_vars

\* C19 (as claimed): under every interleaving of the two calls' reads and
\* writes of the counter, no two candidates receive the same id.
C19_ConcurrentIdsDistinct ==
    pc = "threads" =>
        LET ids == thread_ids[1] \o thread_ids[2]
        IN  \A i, j \in 1..Len(ids) : i # j => ids[i] # ids[j]

\* the columns a row is read with
ColsUsed == IF cols = <<>> THEN WholeRow(table_roi_bgr) ELSE cols

\* column k lies within the region, is at least 5 pixels wide and is read
CellRead(k) ==
    /\ ColsUsed[k].start >= 0 /\ ColsUsed[k].end <= table_roi_bgr[1].width
    /\ ColsUsed[k].end - ColsUsed[k].start >= 5
    /\ ~ ColsUsed[k].fails

\* the columns whose cell holds an amount
NumericCols == {k \in 1..Len(ColsUsed) : CellRead(k) /\ ColsUsed[k].amount # None}

\* the texts of the textual cells in the columns k..(before - 1), in order
RECURSIVE TextsLeftOf(_, _)
TextsLeftOf(k, before) ==
    IF k >= before THEN <<>>
    ELSE (IF CellRead(k) THEN ColsUsed[k].text ELSE <<>>) \o TextsLeftOf(k + 1, before)

\* C23 (as claimed): the amount of every candidate of a table call is the
\* value of its rightmost numeric cell, and its description is the joined
\* text of the non-empty textual cells left of its first numeric cell, also
\* when columns of the row are skipped.
C23_AmountAndDescriptionByColumn ==
    (pc = "assembled" /\ table_result.status = "returned") =>
        \A i \in 1..Len(table_result.out) :
            LET c == table_result.out[i]
                first == IF NumericCols = {} THEN Len(ColsUsed) + 1
                         ELSE CHOOSE k \in NumericCols : \A o \in NumericCols : k <= o
                last == CHOOSE k \in NumericCols : \A o \in NumericCols : o <= k
            IN  /\ c.amount = IF NumericCols = {} THEN None ELSE ColsUsed[last].amount
                /\ c.desc = TextsLeftOf(1, first)

----------------------------------------------------------------------------
(* Properties of the pipeline: the deduplication step *)

\* the ids an output candidate stands for
MemberIds(c) == IF c.merged_ids = <<>> THEN <<c.id>> ELSE c.merged_ids

\* how many times id x is listed across the output candidates
TimesListed(out, x) ==
    Cardinality(UNION { { <<k, m>> : m \in {m \in 1..Len(MemberIds(out[k])) :
                                                MemberIds(out[k])[m] = x} } :
                        k \in 1..Len(out) })

\* C27 (as claimed): the groups partition the input: the members of the
\* output candidates are as many as the input candidates, every output id is
\* the id of an input candidate, every input id is listed exactly once
\* across the outputs, and no output stands for both a candidate with an
\* amount and a candidate without one.
C27_GroupsPartitionInput ==
    (pc = "deduped" /\ deduped_candidates.status = "returned") =>
        LET inp == all_candidates
            out == deduped_candidates.out
        IN  /\ SeqSum([k \in 1..Len(out) |-> Len(MemberIds(out[k]))]) = Len(inp)
            /\ \A k \in 1..Len(out) : \E p \in 1..Len(inp) : inp[p].id = out[k].id
            /\ \A p \in 1..Len(inp) : TimesListed(out, inp[p].id) = 1
            /\ \A k \in 1..Len(out) : \A p, q \in 1..Len(inp) :
                  (/\ inp[p].id \in Range(MemberIds(out[k]))
                   /\ inp[q].id \in Range(MemberIds(out[k])))
                      => ((inp[p].amount = None) <=> (inp[q].amount = None))

\* C29 (as claimed): whenever the caller hands a target to ilp_reconcile, the
\* tolerance it hands with it makes the problem feasible: the status is 'ok'
\* and, when a candidate has a positive amount, something is selected.
C29_PolicyTargetFeasible ==
    (pc \in {"reconciled", "responded"} /\ use_reported_total # None) =>
        /\ result.status = "ok"
        /\ (\E k \in 1..Len(deduped_candidates.out) :
               /\ deduped_candidates.out[k].amount # None
               /\ Val(deduped_candidates.out[k].amount) > 0)
              => result.selected_ids # <<>>

\* the bill items of the response, over all pages
BillItems ==
    LET RECURSIVE Flat(_)
        Flat(k) == IF k = 0 THEN <<>>
                   ELSE Flat(k - 1) \o response_data.pagewise_line_items[k].bill_items
    IN  Flat(Len(response_data.pagewise_line_items))

\* C30 (as claimed): the bill items of the response are the candidates the
\* reconciler chose: their number over all pages is total_item_count and the
\* number of selected ids, and reconciled_amount is the sum of their item
\* amounts, for documents of one page and of several.
C30_ResponseMatchesSelection ==
    pc = "responded" =>
        /\ Len(BillItems) = response_data.total_item_count
        /\ Len(BillItems) = Len(result.selected_ids)
        /\ response_data.reconciled_amount =
              SeqSum([k \in 1..Len(BillItems) |-> OrZero(BillItems[k].item_amount)])

====
